---- MODULE Spec2Model ----
(***************************************************************************)
(* Notification dispatch service: the preference gate, the push fan-out    *)
(* and the preference read/update operations of NotificationService, over  *)
(* the NotificationPreferences and FCMToken collections.                   *)
(***************************************************************************)
EXTENDS Integers, Sequences, FiniteSets, TLC

VARIABLES
    prefsColl,   \* NotificationPreferences collection: documents in insertion order
    fcmTokens,   \* FCMToken collection: a set of documents, each with its _id
    now,         \* the clock that `new Date()` reads
    last,        \* the most recent service call: its arguments, path and outcome
    prevUpdate,  \* the updatePreferences call a getPreferences call directly follows
    proc,        \* the in-flight shouldSendNotification calls (interleaved runs)
    prevRegister,\* the registerToken call that returned right before the current call
    batch,       \* the send loop in progress (sendToMultipleUsers, POST /send)
    inApp        \* InAppNotification collection: a set of documents

vars == <<prefsColl, fcmTokens, now, last, prevUpdate, proc, prevRegister, batch, inApp>>

(***************************************************************************)
(* Bounds and input domains                                                *)
(***************************************************************************)
MaxTime == 1

Users == {"u1", "u2"}
BlankUser == ""
Tokens == {"t1", "t2", "t3"}
NoDevice == "undefined"
Procs == {"p1", "p2"}
Undefined == "undefined"
None == [op |-> "none"]

(***************************************************************************)
(* Notification preferences: schema and documented defaults                *)
(***************************************************************************)
Channels == {"email", "push", "sms"}
PushOnlyCategories == {"keywordTaskAlerts", "recommendedTaskAlerts"}
ThreeChannelCategories ==
    {"transactional", "taskUpdates", "taskReminders", "helpfulInformation",
     "updatesNewsletters"}
Categories == ThreeChannelCategories \cup PushOnlyCategories
UnknownCategory == "promotions"

ChannelsOf(category) ==
    IF category \in PushOnlyCategories THEN {"push"} ELSE Channels

DefaultPreferences ==
    [c \in Categories |->
        [ch \in ChannelsOf(c) |->
            IF c = "transactional" /\ ch = "email" THEN FALSE ELSE TRUE]]

WhitespaceUser == " "

\* String.prototype.trim on the strings that occur as user ids
Trim(s) == IF s = WhitespaceUser THEN "" ELSE s

IsBlankWithoutTrim(userId) == userId = Undefined \/ userId = ""

\* !userId || typeof userId !== 'string' || userId.trim() === ''
IsBlank(userId) == userId = Undefined \/ userId = "" \/ Trim(userId) = ""

\* findOne({ userId }): the position of the first matching document, 0 for null
FindOnePrefs(coll, userId) ==
    IF \E i \in 1..Len(coll) : coll[i].userId = userId
    THEN CHOOSE i \in 1..Len(coll) :
            /\ coll[i].userId = userId
            /\ \A j \in 1..(i - 1) : coll[j].userId # userId
    ELSE 0

\* the unique index on userId: an insert of a second document for a user is
\* refused with duplicate key error 11000
DuplicateKey == 11000

InsertPrefsWithoutIndex(coll, doc) ==
    [code |-> 0, coll |-> Append(coll, doc)]

InsertPrefs(coll, doc) ==
    IF \E i \in 1..Len(coll) : coll[i].userId = doc.userId
    THEN [code |-> DuplicateKey, coll |-> coll]
    ELSE [code |-> 0, coll |-> Append(coll, doc)]

CreateDefault(coll, userId) ==
    InsertPrefs(coll, [userId |-> userId, prefs |-> DefaultPreferences])

\* the document a read hands to the caller: found = FALSE stands for null
LoadPrefs(coll, idx) ==
    IF idx = 0
    THEN [found |-> FALSE]
    ELSE [found |-> TRUE, userId |-> coll[idx].userId, prefs |-> coll[idx].prefs]

GateDecisionAnyChannel(doc, category, channel) ==
    IF ~doc.found THEN TRUE
    ELSE IF category \notin DOMAIN doc.prefs THEN TRUE
    ELSE IF category \in PushOnlyCategories
         THEN doc.prefs[category]["push"] = TRUE
    ELSE IF Channels \subseteq DOMAIN doc.prefs[category]
         THEN doc.prefs[category][channel] = TRUE
    ELSE FALSE

GateDecisionPushAlwaysOn(doc, category, channel) ==
    IF ~doc.found THEN TRUE
    ELSE IF category \notin DOMAIN doc.prefs THEN TRUE
    ELSE IF category \in PushOnlyCategories
         THEN channel = "push"
    ELSE IF Channels \subseteq DOMAIN doc.prefs[category]
         THEN doc.prefs[category][channel] = TRUE
    ELSE FALSE

GateDecisionPartialAllowed(doc, category, channel) ==
    IF ~doc.found THEN TRUE
    ELSE IF category \notin DOMAIN doc.prefs THEN TRUE
    ELSE IF category \in PushOnlyCategories
         THEN channel = "push" /\ doc.prefs[category]["push"] = TRUE
    ELSE IF channel \in DOMAIN doc.prefs[category]
         THEN doc.prefs[category][channel] = TRUE
    ELSE FALSE

GateDecisionUnknownDenied(doc, category, channel) ==
    IF ~doc.found THEN TRUE
    ELSE IF category \notin DOMAIN doc.prefs THEN FALSE
    ELSE IF category \in PushOnlyCategories
         THEN channel = "push" /\ doc.prefs[category]["push"] = TRUE
    ELSE IF Channels \subseteq DOMAIN doc.prefs[category]
         THEN doc.prefs[category][channel] = TRUE
    ELSE FALSE

\* the decision of shouldSendNotification once the reads are over: no document,
\* category not in the document, push-only category, three-channel category
GateDecision(doc, category, channel) ==
    IF ~doc.found THEN TRUE
    ELSE IF category \notin DOMAIN doc.prefs THEN TRUE
    ELSE IF category \in PushOnlyCategories
         THEN channel = "push" /\ doc.prefs[category]["push"] = TRUE
    ELSE IF Channels \subseteq DOMAIN doc.prefs[category]
         THEN doc.prefs[category][channel] = TRUE
    ELSE FALSE

\* shouldSendNotification run without interleaving: [result, coll]
ShouldSendNotification(coll, userId, category, channel) ==
    IF IsBlank(userId)
    THEN [result |-> FALSE, coll |-> coll]
    ELSE LET found == FindOnePrefs(coll, userId)
             made == CreateDefault(coll, userId)
             \* a duplicate key error leads to a second findOne
             after == IF found # 0 THEN coll ELSE made.coll
             doc == LoadPrefs(after, FindOnePrefs(after, userId))
         IN [result |-> GateDecision(doc, category, channel), coll |-> after]

(***************************************************************************)
(* getPreferences and updatePreferences                                    *)
(***************************************************************************)
\* { ...old, ...supplied }
Spread(old, supplied) ==
    [ch \in DOMAIN old \cup DOMAIN supplied |->
        IF ch \in DOMAIN supplied THEN supplied[ch] ELSE old[ch]]

\* the schema keeps the declared channel flags of a category; a flag that is
\* not set takes its schema default
SchemaDefaults(category, value) ==
    [ch \in ChannelsOf(category) |->
        IF ch \in DOMAIN value THEN value[ch] ELSE DefaultPreferences[category][ch]]

MergeCategoryNoForce(category, old, supplied) ==
    SchemaDefaults(category, Spread(old, supplied))

MergeCategoryReplace(category, old, supplied) ==
    LET merged == SchemaDefaults(category, supplied)
    IN IF category = "transactional"
       THEN [merged EXCEPT !["push"] = TRUE]
       ELSE merged

\* one `if (preferences.<category>)` block of updatePreferences
MergeCategory(category, old, supplied) ==
    LET merged == SchemaDefaults(category, Spread(old, supplied))
    IN IF category = "transactional"
       THEN [merged EXCEPT !["push"] = TRUE]
       ELSE merged

ApplyUpdate(prefs, supplied) ==
    [c \in Categories |->
        IF c \in DOMAIN supplied
        THEN MergeCategory(c, prefs[c], supplied[c])
        ELSE prefs[c]]

\* the object both operations return: every category of the document
PreferencesView(coll, idx) ==
    IF idx = 0 THEN DefaultPreferences ELSE coll[idx].prefs

\* [threw, value, coll]
GetPreferences(coll, userId) ==
    IF IsBlank(userId)
    THEN [threw |-> FALSE, value |-> DefaultPreferences, coll |-> coll]
    ELSE LET found == FindOnePrefs(coll, userId)
             after == IF found # 0 THEN coll ELSE CreateDefault(coll, userId).coll
             idx == FindOnePrefs(after, userId)
         IN [threw |-> FALSE, value |-> PreferencesView(after, idx), coll |-> after]

UpdatePreferences(coll, userId, supplied) ==
    IF IsBlank(userId)
    THEN [threw |-> TRUE, value |-> DefaultPreferences, coll |-> coll]
    ELSE LET found == FindOnePrefs(coll, userId)
             after == IF found # 0 THEN coll ELSE CreateDefault(coll, userId).coll
             idx == FindOnePrefs(after, userId)
             saved == [after EXCEPT ![idx].prefs = ApplyUpdate(@, supplied)]
         IN [threw |-> FALSE, value |-> PreferencesView(saved, idx), coll |-> saved]

(***************************************************************************)
(* FCM tokens: the collection, registration and the push fan-out           *)
(***************************************************************************)
IdsOf(coll) == {d._id : d \in coll}

\* a new ObjectId: one that no document of the collection carries. Ids are
\* written [t, n]: the n-th id handed out for documents created with token t.
FreshId(coll, token) ==
    LET n == CHOOSE k \in 1..(Cardinality(coll) + 1) :
                /\ [t |-> token, n |-> k] \notin IdsOf(coll)
                /\ \A j \in 1..(k - 1) : [t |-> token, n |-> j] \in IdsOf(coll)
    IN [t |-> token, n |-> n]

\* the pre('save') hook: a new document with a deviceId removes the other
\* documents of the same user and device
PreSave(coll, doc, isNew) ==
    IF isNew /\ doc.deviceId # NoDevice
    THEN {d \in coll : ~(d.userId = doc.userId /\ d.deviceId = doc.deviceId
                          /\ d._id # doc._id)}
    ELSE coll

\* registerToken: findOne({ token }), then update in place or create
RegisterToken(coll, userId, token, platform, deviceId, time) ==
    IF \E d \in coll : d.token = token
    THEN LET old == CHOOSE d \in coll :
                        d.token = token /\ \A e \in coll : e.token = token => d._id.n <= e._id.n
             new == [old EXCEPT !.userId = userId, !.platform = platform,
                                !.deviceId = deviceId, !.lastActive = time]
         IN (PreSave(coll, new, FALSE) \ {old}) \cup {new}
    ELSE LET new == [_id |-> FreshId(coll, token), userId |-> userId, token |-> token,
                     platform |-> platform, deviceId |-> deviceId, lastActive |-> time]
         IN PreSave(coll, new, TRUE) \cup {new}

\* getUserFCMTokens: find({ userId }).sort({ lastActive: -1 }); documents with
\* equal lastActive come in any order
TokenOrders(coll, userId) ==
    LET mine == {d \in coll : d.userId = userId}
        n == Cardinality(mine)
    IN {f \in [1..n -> mine] :
            /\ \A i, j \in 1..n : i # j => f[i] # f[j]
            /\ \A i, j \in 1..n : i < j => f[i].lastActive >= f[j].lastActive}

\* per-token outcomes of the transport: success or a failure with its error code
Success == "ok"
InvalidToken == "messaging/invalid-registration-token"
NotRegistered == "messaging/registration-token-not-registered"
Transient == "messaging/internal-error"
Outcomes == {Success, InvalidToken, NotRegistered, Transient}

\* sendEachForMulticast: one response per token string, in the order given
SendEachForMulticast(tokenStrings, outcomeOf) ==
    LET responses == [i \in 1..Len(tokenStrings) |->
                        [success |-> outcomeOf[tokenStrings[i]] = Success,
                         code |-> outcomeOf[tokenStrings[i]]]]
    IN [responses |-> responses,
        successCount |-> Cardinality({i \in 1..Len(responses) : responses[i].success}),
        failureCount |-> Cardinality({i \in 1..Len(responses) : ~responses[i].success})]

ResolveCategory(category) ==
    IF category = Undefined THEN "taskUpdates" ELSE category

EveryToken(tokens, responses) ==
    {tokens[i].token : i \in 1..Len(tokens)}

SuccessfulTokens(tokens, responses) ==
    {tokens[i].token : i \in {j \in 1..Len(responses) : responses[j].success}}

IsInvalidCodeAnyFailure(code) == code # Success

IsInvalidCode(code) == code = InvalidToken \/ code = NotRegistered

InvalidTokens(tokens, responses) ==
    {tokens[i].token :
        i \in {j \in 1..Len(responses) :
                  ~responses[j].success /\ IsInvalidCode(responses[j].code)}}

\* updateMany({ token: { $in } }, { lastActive: new Date() })
UpdateManyLastActive(coll, tokenStrings, time) ==
    {IF d.token \in tokenStrings THEN [d EXCEPT !.lastActive = time] ELSE d : d \in coll}

\* deleteMany({ token: { $in } })
DeleteManyTokens(coll, tokenStrings) ==
    {d \in coll : d.token \notin tokenStrings}

SendResultFailedIsTotal(response) ==
    [success |-> response.successCount > 0, sent |-> response.successCount,
     failed |-> Len(response.responses)]

SendResult(response) ==
    [success |-> response.successCount > 0, sent |-> response.successCount,
     failed |-> response.failureCount]

NothingSent == [success |-> TRUE, sent |-> 0, failed |-> 0]

DispatchWithRetry(coll, tokens, outcomeOf, time) ==
    LET tokenStrings == [i \in 1..Len(tokens) |-> tokens[i].token]
        response == SendEachForMulticast(tokenStrings, outcomeOf)
        successful == SuccessfulTokens(tokens, response.responses)
        touched == IF successful # {}
                   THEN UpdateManyLastActive(coll, successful, time) ELSE coll
        invalid == InvalidTokens(tokens, response.responses)
        pruned == IF invalid # {} THEN DeleteManyTokens(touched, invalid) ELSE touched
    IN [result |-> SendResult(response), tokensColl |-> pruned,
        tokensRead |-> TRUE, tokens |-> tokens,
        outcomes |-> [i \in 1..Len(tokens) |-> response.responses[i].code],
        transportCalls |-> IF response.failureCount > 0 THEN 2 ELSE 1,
        updateManyCalls |-> IF successful # {} THEN 1 ELSE 0,
        deleteManyCalls |-> IF invalid # {} THEN 1 ELSE 0]

\* the message is built and sent, the token collection is updated
Dispatch(coll, tokens, outcomeOf, time) ==
    LET tokenStrings == [i \in 1..Len(tokens) |-> tokens[i].token]
        response == SendEachForMulticast(tokenStrings, outcomeOf)
        successful == SuccessfulTokens(tokens, response.responses)
        touched == IF successful # {}
                   THEN UpdateManyLastActive(coll, successful, time) ELSE coll
        invalid == InvalidTokens(tokens, response.responses)
        pruned == IF invalid # {} THEN DeleteManyTokens(touched, invalid) ELSE touched
    IN [result |-> SendResult(response), tokensColl |-> pruned,
        tokensRead |-> TRUE, tokens |-> tokens,
        outcomes |-> [i \in 1..Len(tokens) |-> response.responses[i].code],
        transportCalls |-> 1,
        updateManyCalls |-> IF successful # {} THEN 1 ELSE 0,
        deleteManyCalls |-> IF invalid # {} THEN 1 ELSE 0]

Untouched(coll, tokensRead, tokens) ==
    [result |-> NothingSent, tokensColl |-> coll, tokensRead |-> tokensRead,
     tokens |-> tokens, outcomes |-> <<>>, transportCalls |-> 0,
     updateManyCalls |-> 0, deleteManyCalls |-> 0]

DeliverWithoutEmptyCheck(coll, tokens, outcomeOf, time) ==
    Dispatch(coll, tokens, outcomeOf, time)

\* sendPushNotification after the gate has allowed the send; `tokens` is what
\* getUserFCMTokens returned
Deliver(coll, tokens, outcomeOf, time) ==
    IF Len(tokens) = 0
    THEN Untouched(coll, TRUE, tokens)
    ELSE Dispatch(coll, tokens, outcomeOf, time)

SendPushNotificationUngated(prefs, coll, userId, category, tokens, outcomeOf, time) ==
    LET gate == ShouldSendNotification(prefs, userId, ResolveCategory(category), "push")
    IN [shouldSend |-> gate.result, prefsColl |-> gate.coll]
       @@ Deliver(coll, tokens, outcomeOf, time)

\* sendPushNotification; `tokens` and `outcomeOf` are what the token read and the
\* transport answer when the call gets to them
SendPushNotification(prefs, coll, userId, category, tokens, outcomeOf, time) ==
    LET gate == ShouldSendNotification(prefs, userId, ResolveCategory(category), "push")
    IN [shouldSend |-> gate.result, prefsColl |-> gate.coll]
       @@ IF ~gate.result
          THEN Untouched(coll, FALSE, <<>>)
          ELSE Deliver(coll, tokens, outcomeOf, time)

Init ==
    /\ prefsColl = <<>>
    /\ fcmTokens = {}
    /\ now = 0
    /\ last = None
    /\ prevUpdate = None
    /\ proc = [p \in Procs |-> [pc |-> "idle"]]
    /\ prevRegister = None
    /\ batch = None
    /\ inApp = {}

(***************************************************************************)
(* Preference operations, one call at a time                               *)
(***************************************************************************)
PartialFlags(channels) ==
    UNION {[D -> BOOLEAN] : D \in SUBSET channels}

\* request bodies of PUT /preferences: one category with any of the flags listed
\* for it, the empty body, and bodies naming two categories
UpdatedFlags ==
    [c \in {"transactional", "taskUpdates", "keywordTaskAlerts",
            "recommendedTaskAlerts"} |->
        IF c = "transactional" THEN {"email", "push"} ELSE ChannelsOf(c)]

UpdateBodies ==
    UNION {{c :> f : f \in PartialFlags(UpdatedFlags[c])} : c \in DOMAIN UpdatedFlags}
    \cup {[c \in {} |-> TRUE]}
    \cup {("transactional" :> f) @@ ("taskUpdates" :> g) :
            f \in {[ch \in {"push"} |-> FALSE], [ch \in {"email"} |-> TRUE]},
            g \in {[ch \in {"email"} |-> FALSE], [ch \in {"sms"} |-> FALSE]}}

PrefsUsers == Users \cup {BlankUser}
UpdatingUsers == {"u1", BlankUser}
GateCategories == Categories \cup {UnknownCategory}

GateCall(userId, category, channel) ==
    LET r == ShouldSendNotification(prefsColl, userId, category, channel)
    IN /\ prefsColl' = r.coll
       /\ last' = [op |-> "shouldSendNotification", userId |-> userId,
                   category |-> category, channel |-> channel,
                   result |-> r.result]
       /\ prevUpdate' = None
       /\ UNCHANGED <<fcmTokens, now, proc, prevRegister, batch, inApp>>

GetPreferencesCall(userId) ==
    LET r == GetPreferences(prefsColl, userId)
    IN /\ prefsColl' = r.coll
       /\ last' = [op |-> "getPreferences", userId |-> userId,
                   threw |-> r.threw, value |-> r.value]
       /\ UNCHANGED <<fcmTokens, now, prevUpdate, proc, prevRegister, batch, inApp>>

UpdatePreferencesCall(userId, supplied) ==
    LET r == UpdatePreferences(prefsColl, userId, supplied)
        at == FindOnePrefs(prefsColl, userId)
    IN /\ prefsColl' = r.coll
       /\ last' = [op |-> "updatePreferences", userId |-> userId,
                   supplied |-> supplied, threw |-> r.threw, value |-> r.value,
                   before |-> PreferencesView(prefsColl, at)]
       /\ prevUpdate' = None
       /\ UNCHANGED <<fcmTokens, now, proc, prevRegister, batch, inApp>>

Idle == last.op = "none"

\* the caller takes the outcome of the call; the next call starts after that.
\* An updatePreferences call is remembered until the call after it has returned.
ReturnPrefs ==
    /\ ~Idle
    /\ last' = None
    /\ prevUpdate' = IF last.op = "updatePreferences" THEN last ELSE None
    /\ UNCHANGED <<prefsColl, fcmTokens, now, proc, prevRegister, batch, inApp>>

NextPrefs ==
    \/ ReturnPrefs
    \/ Idle /\ \E u \in PrefsUsers, c \in GateCategories, ch \in Channels :
                  GateCall(u, c, ch)
    \/ Idle /\ \E u \in PrefsUsers : GetPreferencesCall(u)
    \/ Idle /\ \E u \in UpdatingUsers, b \in UpdateBodies : UpdatePreferencesCall(u, b)

SpecPrefs == Init /\ [][NextPrefs]_vars

(***************************************************************************)
(* The dispatch core, one call at a time                                   *)
(***************************************************************************)
SendUsers == Users \cup {BlankUser}
SendCategories == {Undefined, "transactional"}
PushSwitchBodies ==
    {"taskUpdates" :> ("push" :> FALSE), "taskUpdates" :> ("push" :> TRUE)}

Tick ==
    /\ now < MaxTime
    /\ now' = now + 1
    /\ UNCHANGED <<prefsColl, fcmTokens, last, prevUpdate, proc, prevRegister, batch, inApp>>

RegisterTokenCall(userId, token, platform, deviceId) ==
    /\ fcmTokens' = RegisterToken(fcmTokens, userId, token, platform, deviceId, now)
    /\ last' = [op |-> "registerToken", userId |-> userId, token |-> token,
                platform |-> platform, deviceId |-> deviceId]
    /\ UNCHANGED <<prefsColl, now, prevUpdate, proc, prevRegister, batch, inApp>>

SendPushNotificationCall(userId, category) ==
    \E tokens \in TokenOrders(fcmTokens, userId) :
      \E outcomeOf \in [{tokens[i].token : i \in 1..Len(tokens)} -> Outcomes] :
        LET r == SendPushNotification(prefsColl, fcmTokens, userId, category,
                                      tokens, outcomeOf, now)
        IN /\ prefsColl' = r.prefsColl
           /\ fcmTokens' = r.tokensColl
           /\ last' = [op |-> "sendPushNotification", userId |-> userId,
                       category |-> category, threw |-> FALSE,
                       shouldSend |-> r.shouldSend, tokensRead |-> r.tokensRead,
                       tokens |-> r.tokens, outcomes |-> r.outcomes,
                       transportCalls |-> r.transportCalls,
                       updateManyCalls |-> r.updateManyCalls,
                       deleteManyCalls |-> r.deleteManyCalls,
                       result |-> r.result]
           /\ UNCHANGED <<now, prevUpdate, proc, prevRegister, batch, inApp>>

\* the caller takes the outcome of the call; the next call starts after that
Return ==
    /\ ~Idle
    /\ last' = None
    /\ UNCHANGED <<prefsColl, fcmTokens, now, prevUpdate, proc, prevRegister, batch, inApp>>

Next ==
    \/ Return
    \/ Idle /\ Tick
    \/ Idle /\ \E u \in Users, t \in Tokens : RegisterTokenCall(u, t, "android", NoDevice)
    \/ Idle /\ \E b \in PushSwitchBodies : UpdatePreferencesCall("u1", b)
    \/ Idle /\ \E u \in SendUsers, c \in SendCategories : SendPushNotificationCall(u, c)

Spec == Init /\ [][Next]_vars

(***************************************************************************)
(* Claims about sendPushNotification                                       *)
(***************************************************************************)
\* a step that is one sendPushNotification call
IsSendStep == Idle /\ last'.op = "sendPushNotification"

Positions(outcomes, codes) == {i \in 1..Len(outcomes) : outcomes[i] \in codes}

\* C1: a sendPushNotification call that reaches the transport resolves exactly
\* the records of its user, deletes exactly the resolved records whose outcome
\* is messaging/invalid-registration-token or
\* messaging/registration-token-not-registered, and leaves a record whose
\* outcome is any other failure in the collection with every field, lastActive
\* included, as it was.
C1_PrunesExactlyInvalidTokens ==
    [][(IsSendStep /\ last'.transportCalls = 1) =>
        LET toks == last'.tokens
            outs == last'.outcomes
            invalid == {toks[i]._id : i \in Positions(outs, {InvalidToken, NotRegistered})}
            otherFailed == {toks[i] : i \in Positions(outs, {Transient})}
        IN /\ {toks[i] : i \in 1..Len(toks)} = {d \in fcmTokens : d.userId = last'.userId}
           /\ IdsOf(fcmTokens) \ IdsOf(fcmTokens') = invalid
           /\ otherFailed \subseteq fcmTokens']_vars

C1_Witness ==
    /\ last.op = "sendPushNotification" /\ last.transportCalls = 1
    /\ Len(last.tokens) = 3
    /\ last.outcomes[1] = Success /\ last.outcomes[2] = Transient
    /\ last.outcomes[3] = NotRegistered
    /\ last.tokens[2] \in fcmTokens
    /\ last.tokens[3]._id \notin IdsOf(fcmTokens)
    /\ Cardinality(fcmTokens) = 2

\* C2: a sendPushNotification call that reaches the transport with n resolved
\* tokens returns sent = the number of success outcomes and failed = the number
\* of failure outcomes of any code, so sent + failed = n.
C2_CountsSuccessesAndFailures ==
    (last.op = "sendPushNotification" /\ last.transportCalls = 1) =>
        /\ last.result.sent = Cardinality(Positions(last.outcomes, {Success}))
        /\ last.result.failed =
              Cardinality(Positions(last.outcomes, Outcomes \ {Success}))
        /\ last.result.sent + last.result.failed = Len(last.tokens)

C2_Witness ==
    /\ last.op = "sendPushNotification" /\ last.transportCalls = 1
    /\ Len(last.tokens) = 3
    /\ last.outcomes = <<Success, Transient, InvalidToken>>
    /\ last.result.sent = 1 /\ last.result.failed = 2

\* C3: a sendPushNotification call that reaches the transport sets lastActive
\* to the time of the call on exactly the resolved records whose outcome is
\* success; every other record is unchanged or deleted, and none is added.
C3_RefreshesExactlySuccessfulTokens ==
    [][(IsSendStep /\ last'.transportCalls = 1) =>
        LET ok == {last'.tokens[i]._id : i \in Positions(last'.outcomes, {Success})}
        IN /\ \A d \in fcmTokens :
                IF d._id \in ok
                THEN [d EXCEPT !.lastActive = now] \in fcmTokens'
                ELSE d \in fcmTokens' \/ d._id \notin IdsOf(fcmTokens')
           /\ IdsOf(fcmTokens') \subseteq IdsOf(fcmTokens)]_vars

C3_Witness ==
    /\ last.op = "sendPushNotification" /\ last.transportCalls = 1
    /\ Len(last.tokens) = 2
    /\ last.outcomes = <<Transient, Success>>
    /\ last.tokens[2].lastActive < now
    /\ [last.tokens[2] EXCEPT !.lastActive = now] \in fcmTokens
    /\ last.tokens[1] \in fcmTokens
    /\ \E d \in fcmTokens : d.userId # last.userId /\ d.lastActive < now

\* C4: when the gate denies push for the user and the defaulted category,
\* sendPushNotification returns sent = 0 and failed = 0, does not read the
\* user's tokens, does not call the transport and leaves the token collection
\* as it was.
C4_DeniedSendTouchesNothing ==
    [][(IsSendStep /\ ~last'.shouldSend) =>
        /\ last'.result.sent = 0 /\ last'.result.failed = 0
        /\ ~last'.tokensRead
        /\ last'.transportCalls = 0
        /\ fcmTokens' = fcmTokens]_vars

C4_Witness ==
    /\ last.op = "sendPushNotification" /\ ~last.shouldSend
    /\ last.userId = "u1" /\ last.category = Undefined
    /\ Cardinality({d \in fcmTokens : d.userId = "u1"}) = 2
    /\ last.result.sent = 0 /\ last.result.failed = 0

\* C5: when the gate allows the send and the user has no token record,
\* sendPushNotification returns sent = 0 and failed = 0 and the transport is
\* not called.
C5_NoTokensNoTransport ==
    [][(/\ IsSendStep
        /\ last'.shouldSend
        /\ {d \in fcmTokens : d.userId = last'.userId} = {}) =>
        /\ last'.result.sent = 0 /\ last'.result.failed = 0
        /\ last'.transportCalls = 0]_vars

C5_Witness ==
    /\ last.op = "sendPushNotification" /\ last.shouldSend
    /\ last.tokensRead /\ Len(last.tokens) = 0
    /\ last.userId = "u2"
    /\ fcmTokens # {}
    /\ last.result.sent = 0 /\ last.result.failed = 0
    /\ last.transportCalls = 0

(***************************************************************************)
(* shouldSendNotification calls that interleave at their store operations  *)
(***************************************************************************)
RaceUsers == Users \cup {BlankUser, WhitespaceUser}
RaceCategories == {"taskUpdates", "keywordTaskAlerts"}
RaceChannels == {"push", "email"}

Finish(p, result, path) ==
    proc' = [proc EXCEPT ![p].pc = "done", ![p].result = result, ![p].threw = FALSE,
                         ![p].path = path]

\* the call up to its first await: the userId check
GateBegin(p, userId, category, channel) ==
    /\ proc[p].pc = "idle"
    /\ proc' = [proc EXCEPT ![p] =
            IF IsBlank(userId)
            THEN [pc |-> "done", userId |-> userId, category |-> category,
                  channel |-> channel, result |-> FALSE, threw |-> FALSE,
                  path |-> "invalid"]
            ELSE [pc |-> "findOne", userId |-> userId, category |-> category,
                  channel |-> channel, result |-> FALSE, threw |-> FALSE,
                  path |-> "call"]]
    /\ UNCHANGED <<prefsColl, fcmTokens, now, last, prevUpdate, prevRegister, batch, inApp>>

GateFindOne(p) ==
    /\ proc[p].pc = "findOne"
    /\ LET idx == FindOnePrefs(prefsColl, proc[p].userId)
       IN IF idx # 0
          THEN Finish(p, GateDecision(LoadPrefs(prefsColl, idx), proc[p].category,
                                      proc[p].channel), "found")
          ELSE proc' = [proc EXCEPT ![p].pc = "createDefault"]
    /\ UNCHANGED <<prefsColl, fcmTokens, now, last, prevUpdate, prevRegister, batch, inApp>>

GateCreateDefault(p) ==
    /\ proc[p].pc = "createDefault"
    /\ LET made == CreateDefault(prefsColl, proc[p].userId)
       IN /\ prefsColl' = made.coll
          /\ IF made.code = 0
             THEN Finish(p, GateDecision(LoadPrefs(made.coll, Len(made.coll)),
                                         proc[p].category, proc[p].channel), "created")
             ELSE IF made.code = DuplicateKey
             THEN proc' = [proc EXCEPT ![p].pc = "refetch"]
             ELSE Finish(p, TRUE, "failOpen")
    /\ UNCHANGED <<fcmTokens, now, last, prevUpdate, prevRegister, batch, inApp>>

GateRefetch(p) ==
    /\ proc[p].pc = "refetch"
    /\ LET idx == FindOnePrefs(prefsColl, proc[p].userId)
       IN Finish(p, GateDecision(LoadPrefs(prefsColl, idx), proc[p].category,
                                 proc[p].channel), "refetched")
    /\ UNCHANGED <<prefsColl, fcmTokens, now, last, prevUpdate, prevRegister, batch, inApp>>

GateReturn(p) ==
    /\ proc[p].pc = "done"
    /\ proc' = [proc EXCEPT ![p] = [pc |-> "idle"]]
    /\ UNCHANGED <<prefsColl, fcmTokens, now, last, prevUpdate, prevRegister, batch, inApp>>

NextGateRace ==
    \/ \E p \in Procs, u \in RaceUsers, c \in RaceCategories, ch \in RaceChannels :
            GateBegin(p, u, c, ch)
    \/ \E p \in Procs : GateFindOne(p)
    \/ \E p \in Procs : GateCreateDefault(p)
    \/ \E p \in Procs : GateRefetch(p)
    \/ \E p \in Procs : GateReturn(p)

SpecGateRace == Init /\ [][NextGateRace]_vars

RecordsOf(coll, userId) == {i \in 1..Len(coll) : coll[i].userId = userId}

\* C6: shouldSendNotification calls that interleave in any way leave at most one
\* preference record per user, every record holds the documented defaults, and a
\* call that has returned for a non-blank user returned a value (no duplicate key
\* error reached its caller) and left exactly one record for that user.
C6_DefaultCreatedOnce ==
    /\ \A u \in RaceUsers : Cardinality(RecordsOf(prefsColl, u)) <= 1
    /\ \A i \in 1..Len(prefsColl) : prefsColl[i].prefs = DefaultPreferences
    /\ \A p \in Procs :
          proc[p].pc = "done" =>
             /\ proc[p].threw = FALSE
             /\ ~IsBlank(proc[p].userId) =>
                   Cardinality(RecordsOf(prefsColl, proc[p].userId)) = 1

C6_Witness ==
    /\ proc["p1"].pc = "done" /\ proc["p2"].pc = "done"
    /\ proc["p1"].userId = "u1" /\ proc["p2"].userId = "u1"
    /\ proc["p1"].path = "created" /\ proc["p2"].path = "refetched"
    /\ Cardinality(RecordsOf(prefsColl, "u1")) = 1

\* C7: every stored preference record has transactional.push = TRUE, and the
\* value updatePreferences returns has transactional.push = TRUE whatever value
\* the request supplied for it.
C7_TransactionalPushForced ==
    /\ \A i \in 1..Len(prefsColl) : prefsColl[i].prefs["transactional"]["push"] = TRUE
    /\ (last.op = "updatePreferences" /\ ~last.threw) =>
          last.value["transactional"]["push"] = TRUE

C7_Witness ==
    /\ last.op = "updatePreferences" /\ ~last.threw
    /\ "transactional" \in DOMAIN last.supplied
    /\ "push" \in DOMAIN last.supplied["transactional"]
    /\ last.supplied["transactional"]["push"] = FALSE
    /\ last.value["transactional"]["push"] = TRUE

C9_PushOnlyReturnsStoredFlag ==
    [][(/\ Idle
        /\ last'.op = "shouldSendNotification"
        /\ last'.category \in PushOnlyCategories
        /\ last'.channel = "push"
        /\ FindOnePrefs(prefsColl, last'.userId) # 0)
       => last'.result =
            prefsColl[FindOnePrefs(prefsColl, last'.userId)].prefs[last'.category]["push"]]_vars

C9_Witness ==
    /\ last.op = "shouldSendNotification"
    /\ last.category = "recommendedTaskAlerts" /\ last.channel = "push"
    /\ FindOnePrefs(prefsColl, last.userId) # 0
    /\ last.result = FALSE

\* what a flag must be after an update: the supplied value when the request
\* supplied it (transactional.push stays TRUE), its value before otherwise
FlagAfterUpdate(before, supplied, c, ch) ==
    IF c \in DOMAIN supplied /\ ch \in DOMAIN supplied[c]
    THEN IF c = "transactional" /\ ch = "push" THEN before[c][ch] ELSE supplied[c][ch]
    ELSE before[c][ch]

\* C10: after updatePreferences(u, body) the stored record of u has, for every
\* category and channel, the supplied flag where the body supplied one and the
\* value from before the update everywhere else; a getPreferences(u) that
\* directly follows returns exactly these values (body {taskUpdates:{email:false}}:
\* taskUpdates.email is FALSE, taskUpdates.push and .sms are as before).
C10_PartialUpdateRoundTrip ==
    /\ (last.op = "updatePreferences" /\ ~last.threw) =>
          \A c \in Categories : \A ch \in ChannelsOf(c) :
             prefsColl[FindOnePrefs(prefsColl, last.userId)].prefs[c][ch]
                = FlagAfterUpdate(last.before, last.supplied, c, ch)
    /\ (/\ last.op = "getPreferences"
        /\ prevUpdate.op = "updatePreferences"
        /\ ~prevUpdate.threw
        /\ prevUpdate.userId = last.userId) =>
          \A c \in Categories : \A ch \in ChannelsOf(c) :
             last.value[c][ch]
                = FlagAfterUpdate(prevUpdate.before, prevUpdate.supplied, c, ch)

C10_Witness ==
    /\ last.op = "getPreferences"
    /\ prevUpdate.op = "updatePreferences"
    /\ prevUpdate.userId = last.userId
    /\ prevUpdate.supplied = ("taskUpdates" :> ("email" :> FALSE))
    /\ prevUpdate.before["taskUpdates"]["email"] = TRUE
    /\ prevUpdate.before["taskUpdates"]["push"] = FALSE
    /\ last.value["taskUpdates"]["email"] = FALSE
    /\ last.value["taskUpdates"]["push"] = FALSE
    /\ last.value["taskUpdates"]["sms"] = TRUE

\* C19: a shouldSendNotification call whose userId is empty or whitespace has
\* returned false by the time it first yields, for every category and channel,
\* without a findOne, createDefault or re-read of its own, and the step that
\* starts it leaves the preference collection as it was.
C19_BlankUserFailsClosed ==
    /\ [](\A p \in Procs :
            (proc[p].pc # "idle" /\ proc[p].userId \in {"", " "})
            => /\ proc[p].pc = "done"
               /\ proc[p].result = FALSE
               /\ ~proc[p].threw
               /\ proc[p].path = "invalid")
    /\ [][\A p \in Procs :
            (proc[p].pc = "idle" /\ proc'[p].pc # "idle"
             /\ proc'[p].userId \in {"", " "})
            => prefsColl' = prefsColl]_vars

C19_Witness ==
    /\ proc["p1"].pc = "done" /\ proc["p1"].userId = " "
    /\ proc["p1"].category = "keywordTaskAlerts" /\ proc["p1"].channel = "push"
    /\ proc["p1"].result = FALSE
    /\ proc["p2"].pc = "done" /\ proc["p2"].userId = "u1"
    /\ proc["p2"].category = "keywordTaskAlerts" /\ proc["p2"].channel = "push"
    /\ proc["p2"].result = TRUE
    /\ Len(prefsColl) = 1

(***************************************************************************)
(* Token registration and removal, one call at a time                      *)
(***************************************************************************)
\* removeToken: deleteOne({ token }); NotFoundError when nothing was deleted
RemoveToken(coll, token) ==
    IF \E d \in coll : d.token = token
    THEN LET gone == CHOOSE d \in coll :
                        d.token = token /\ \A e \in coll : e.token = token => d._id.n <= e._id.n
         IN [threw |-> FALSE, coll |-> coll \ {gone}]
    ELSE [threw |-> TRUE, coll |-> coll]

DeviceIds == {"d1", NoDevice}
DeviceTokens == {"t1", "t2"}

RemoveTokenCall(token) ==
    LET r == RemoveToken(fcmTokens, token)
    IN /\ fcmTokens' = r.coll
       /\ last' = [op |-> "removeToken", token |-> token, threw |-> r.threw]
       /\ UNCHANGED <<prefsColl, now, prevUpdate, proc, prevRegister, batch, inApp>>

\* the caller takes the outcome of the call; a registerToken call is remembered
\* until the call after it has returned
ReturnTokens ==
    /\ ~Idle
    /\ last' = None
    /\ prevRegister' = IF last.op = "registerToken" THEN last ELSE None
    /\ UNCHANGED <<prefsColl, fcmTokens, now, prevUpdate, proc, batch, inApp>>

NextTokens ==
    \/ ReturnTokens
    \/ Idle /\ Tick
    \/ Idle /\ \E u \in Users, t \in DeviceTokens, d \in DeviceIds :
                  RegisterTokenCall(u, t, "android", d)
    \/ Idle /\ \E t \in DeviceTokens : RemoveTokenCall(t)
    \/ Idle /\ \E u \in Users : SendPushNotificationCall(u, Undefined)

SpecTokens == Init /\ [][NextTokens]_vars

\* the records of one device of one user
DeviceRecords(coll, userId, deviceId) ==
    {d \in coll : d.userId = userId /\ d.deviceId = deviceId}

\* C11: when registerToken(u, t2, d) directly follows registerToken(u, t1, d)
\* for the same user u and the same present deviceId d, the collection holds
\* exactly one record for (u, d) and its token string is t2.
C11_SameDeviceKeepsLatestToken ==
    (/\ last.op = "registerToken"
     /\ prevRegister.op = "registerToken"
     /\ last.deviceId # NoDevice
     /\ prevRegister.userId = last.userId
     /\ prevRegister.deviceId = last.deviceId
     /\ prevRegister.token # last.token)
    => /\ Cardinality(DeviceRecords(fcmTokens, last.userId, last.deviceId)) = 1
       /\ \A d \in DeviceRecords(fcmTokens, last.userId, last.deviceId) :
              d.token = last.token

\* C12: no two records carry the same user and the same present deviceId.
C12_OneRecordPerDevice ==
    \A d, e \in fcmTokens :
        (d.userId = e.userId /\ d.deviceId = e.deviceId /\ d.deviceId # NoDevice)
        => d = e

(***************************************************************************)
(* registerToken calls that interleave at their store operations           *)
(***************************************************************************)
\* the registrations that race: two tokens for the same device of one user, and
\* the same two token strings registered by another user from other devices
RaceRegistrations ==
    {[userId |-> "u1", token |-> "t1", platform |-> "android", deviceId |-> "d1"],
     [userId |-> "u1", token |-> "t2", platform |-> "android", deviceId |-> "d1"],
     [userId |-> "u2", token |-> "t1", platform |-> "ios", deviceId |-> NoDevice],
     [userId |-> "u2", token |-> "t2", platform |-> "ios", deviceId |-> "d1"]}

InsertTokenWithoutIndex(coll, doc) ==
    [code |-> 0, coll |-> coll \cup {doc}]

\* the insert that FCMToken.create() ends in; the unique index on token refuses
\* a second document with the same token string
InsertToken(coll, doc) ==
    IF \E d \in coll : d.token = doc.token
    THEN [code |-> DuplicateKey, coll |-> coll]
    ELSE [code |-> 0, coll |-> coll \cup {doc}]

\* save() of a document that was read from the collection: an update of the
\* document with that _id; it fails when the document is no longer there
SaveExisting(coll, doc) ==
    IF \E d \in coll : d._id = doc._id
    THEN [found |-> TRUE, coll |-> {d \in coll : d._id # doc._id} \cup {doc}]
    ELSE [found |-> FALSE, coll |-> coll]

\* the documents that calls in progress hold in memory
InFlight == {proc[q].doc : q \in {r \in Procs : proc[r].pc \in {"regPreSave", "regInsert", "regSave"}}}

\* the call up to the answer of findOne({ token }): the fields of the found
\* document are set, or a new document is built
RegFindOne(p, a) ==
    /\ proc[p].pc = "idle"
    /\ IF \E d \in fcmTokens : d.token = a.token
       THEN LET old == CHOOSE d \in fcmTokens : d.token = a.token
            IN proc' = [proc EXCEPT ![p] = a @@
                   [pc |-> "regSave",
                    doc |-> [old EXCEPT !.userId = a.userId, !.platform = a.platform,
                                        !.deviceId = a.deviceId, !.lastActive = now],
                    isNew |-> FALSE, threw |-> FALSE]]
       ELSE proc' = [proc EXCEPT ![p] = a @@
                   [pc |-> "regPreSave",
                    doc |-> [_id |-> FreshId(fcmTokens \cup InFlight, a.token),
                             userId |-> a.userId, token |-> a.token,
                             platform |-> a.platform, deviceId |-> a.deviceId,
                             lastActive |-> now],
                    isNew |-> TRUE, threw |-> FALSE]]
    /\ UNCHANGED <<prefsColl, fcmTokens, now, last, prevUpdate, prevRegister, batch, inApp>>

\* the pre('save') hook of the new document
RegPreSave(p) ==
    /\ proc[p].pc = "regPreSave"
    /\ fcmTokens' = PreSave(fcmTokens, proc[p].doc, TRUE)
    /\ proc' = [proc EXCEPT ![p].pc = "regInsert"]
    /\ UNCHANGED <<prefsColl, now, last, prevUpdate, prevRegister, batch, inApp>>

RegInsert(p) ==
    /\ proc[p].pc = "regInsert"
    /\ LET r == InsertToken(fcmTokens, proc[p].doc)
       IN /\ fcmTokens' = r.coll
          /\ proc' = [proc EXCEPT ![p].pc = "regDone", ![p].threw = (r.code # 0)]
    /\ UNCHANGED <<prefsColl, now, last, prevUpdate, prevRegister, batch, inApp>>

\* save() of the found document; its pre('save') hook does nothing (not new)
RegSave(p) ==
    /\ proc[p].pc = "regSave"
    /\ LET r == SaveExisting(PreSave(fcmTokens, proc[p].doc, FALSE), proc[p].doc)
       IN /\ fcmTokens' = r.coll
          /\ proc' = [proc EXCEPT ![p].pc = "regDone", ![p].threw = ~r.found]
    /\ UNCHANGED <<prefsColl, now, last, prevUpdate, prevRegister, batch, inApp>>

RegReturn(p) ==
    /\ proc[p].pc = "regDone"
    /\ proc' = [proc EXCEPT ![p] = [pc |-> "idle"]]
    /\ UNCHANGED <<prefsColl, fcmTokens, now, last, prevUpdate, prevRegister, batch, inApp>>

NextRegisterRace ==
    \/ Tick
    \/ \E p \in Procs, a \in RaceRegistrations : RegFindOne(p, a)
    \/ \E p \in Procs : RegPreSave(p)
    \/ \E p \in Procs : RegInsert(p)
    \/ \E p \in Procs : RegSave(p)
    \/ \E p \in Procs : RegReturn(p)

SpecRegisterRace == Init /\ [][NextRegisterRace]_vars

\* C13: when two registerToken calls for the same user and the same present
\* deviceId, with different token strings that had no record, have both
\* finished, the collection holds exactly one record for that user and device.
C13_RacingRegistrationsConverge ==
    (/\ \A p \in Procs : proc[p].pc = "regDone" /\ proc[p].isNew
     /\ proc["p1"].userId = proc["p2"].userId
     /\ proc["p1"].deviceId = proc["p2"].deviceId
     /\ proc["p1"].deviceId # NoDevice
     /\ proc["p1"].token # proc["p2"].token)
    => Cardinality(DeviceRecords(fcmTokens, proc["p1"].userId, proc["p1"].deviceId)) = 1

WithToken(coll, token) == {d \in coll : d.token = token}

\* C14: no two records carry the same token string, in every state that
\* interleaved registerToken calls reach; and the save of a registerToken call
\* that found a record for its token string leaves the number of records with
\* that token string as it was and, when the found record is still there, sets
\* that record's userId, platform, deviceId and lastActive and changes nothing
\* else in the collection.
C14_TokenStringHasOneRecord ==
    /\ [](\A d, e \in fcmTokens : d.token = e.token => d = e)
    /\ [][\A p \in Procs :
            (proc[p].pc = "regSave" /\ proc'[p].pc = "regDone") =>
               /\ Cardinality(WithToken(fcmTokens', proc[p].token))
                    = Cardinality(WithToken(fcmTokens, proc[p].token))
               /\ \A old \in fcmTokens :
                     old._id = proc[p].doc._id =>
                        /\ ~proc'[p].threw
                        /\ fcmTokens' =
                             (fcmTokens \ {old}) \cup
                             {[_id |-> old._id, token |-> old.token,
                               userId |-> proc[p].userId,
                               platform |-> proc[p].platform,
                               deviceId |-> proc[p].deviceId,
                               lastActive |-> proc[p].doc.lastActive]}]_vars

\* a record that p1 created for u1 was re-registered by p2 for u2 from another
\* platform, without a deviceId, at a later time
C14_Witness ==
    /\ proc["p1"].pc = "regDone" /\ proc["p1"].isNew /\ ~proc["p1"].threw
    /\ proc["p1"].token = "t1" /\ proc["p1"].userId = "u1"
    /\ proc["p1"].doc.lastActive = 0
    /\ proc["p2"].pc = "regDone" /\ ~proc["p2"].isNew /\ ~proc["p2"].threw
    /\ proc["p2"].token = "t1" /\ proc["p2"].userId = "u2"
    /\ WithToken(fcmTokens, "t1") =
          {[_id |-> proc["p1"].doc._id, token |-> "t1", userId |-> "u2",
            platform |-> "ios", deviceId |-> NoDevice, lastActive |-> 1]}

(***************************************************************************)
(* Store and transport failures, and the send loops                        *)
(***************************************************************************)
\* the awaited operations of sendPushNotification that can reject
FaultPoints ==
    {"prefsFindOne", "createDefault", "prefsRefetch", "tokensFind", "transport",
     "updateMany", "deleteMany"}

FailOpenDenies(coll) ==
    [result |-> FALSE, coll |-> coll, path |-> "failOpen"]

\* the catch block of shouldSendNotification: the error is logged, true returned
FailOpen(coll) ==
    [result |-> TRUE, coll |-> coll, path |-> "failOpen"]

\* shouldSendNotification when the operations in `failing` reject; `raced` says
\* that a concurrent call inserts the user's default record between this call's
\* findOne and its createDefault. [result, coll, path]
GateUnderFaults(coll, userId, category, channel, failing, raced) ==
    IF IsBlank(userId)
    THEN [result |-> FALSE, coll |-> coll, path |-> "invalid"]
    ELSE IF "prefsFindOne" \in failing
    THEN FailOpen(coll)
    ELSE LET found == FindOnePrefs(coll, userId)
             seen == IF raced THEN CreateDefault(coll, userId).coll ELSE coll
             made == CreateDefault(seen, userId)
         IN IF found # 0
            THEN [result |-> GateDecision(LoadPrefs(coll, found), category, channel),
                  coll |-> coll, path |-> "found"]
            ELSE IF "createDefault" \in failing
            THEN FailOpen(seen)
            ELSE IF made.code = 0
            THEN [result |-> GateDecision(LoadPrefs(made.coll, Len(made.coll)),
                                          category, channel),
                  coll |-> made.coll, path |-> "created"]
            ELSE IF made.code # DuplicateKey \/ "prefsRefetch" \in failing
            THEN FailOpen(made.coll)
            ELSE [result |-> GateDecision(
                                LoadPrefs(made.coll, FindOnePrefs(made.coll, userId)),
                                category, channel),
                  coll |-> made.coll, path |-> "refetched"]

ThrownSwallowed(coll, tokensRead, tokens, outcomes, transportCalls, updateManyCalls, deleteManyCalls) ==
    [threw |-> FALSE, result |-> NothingSent, tokensColl |-> coll, tokensRead |-> tokensRead,
     tokens |-> tokens, outcomes |-> outcomes, transportCalls |-> transportCalls,
     updateManyCalls |-> updateManyCalls, deleteManyCalls |-> deleteManyCalls]

\* what a call that threw leaves behind: no result
Thrown(coll, tokensRead, tokens, outcomes, transportCalls, updateManyCalls, deleteManyCalls) ==
    [threw |-> TRUE, result |-> None, tokensColl |-> coll, tokensRead |-> tokensRead,
     tokens |-> tokens, outcomes |-> outcomes, transportCalls |-> transportCalls,
     updateManyCalls |-> updateManyCalls, deleteManyCalls |-> deleteManyCalls]

\* sendPushNotification when the operations in `failing` reject: every rejection
\* after the gate reaches the catch block and is thrown again
SendPushUnderFaults(prefs, coll, userId, category, tokens, outcomeOf, time, failing, raced) ==
    LET gate == GateUnderFaults(prefs, userId, ResolveCategory(category), "push",
                                failing, raced)
        tokenStrings == [i \in 1..Len(tokens) |-> tokens[i].token]
        response == SendEachForMulticast(tokenStrings, outcomeOf)
        outcomes == [i \in 1..Len(tokens) |-> response.responses[i].code]
        successful == SuccessfulTokens(tokens, response.responses)
        touched == IF successful # {}
                   THEN UpdateManyLastActive(coll, successful, time) ELSE coll
        invalid == InvalidTokens(tokens, response.responses)
    IN [shouldSend |-> gate.result, gatePath |-> gate.path, prefsColl |-> gate.coll]
       @@ IF ~gate.result
          THEN [threw |-> FALSE] @@ Untouched(coll, FALSE, <<>>)
          ELSE IF "tokensFind" \in failing
          THEN Thrown(coll, FALSE, <<>>, <<>>, 0, 0, 0)
          ELSE IF Len(tokens) = 0
          THEN [threw |-> FALSE] @@ Untouched(coll, TRUE, tokens)
          ELSE IF "transport" \in failing
          THEN Thrown(coll, TRUE, tokens, <<>>, 1, 0, 0)
          ELSE IF successful # {} /\ "updateMany" \in failing
          THEN Thrown(coll, TRUE, tokens, outcomes, 1, 1, 0)
          ELSE IF invalid # {} /\ "deleteMany" \in failing
          THEN Thrown(touched, TRUE, tokens, outcomes, 1,
                      IF successful # {} THEN 1 ELSE 0, 1)
          ELSE [threw |-> FALSE] @@ Dispatch(coll, tokens, outcomeOf, time)

\* for (const userId of userIds): the element the loop is at
TargetAtReversed(b) == b.targets[Len(b.targets) + 1 - b.i]

TargetAt(b) == b.targets[b.i]

\* sendToMultipleUsers: one turn of the loop, `r` is what sendPushNotification
\* did for userIds[i]
AccumulateBatchAbortOnThrow(b, r) ==
    [b EXCEPT !.i = IF r.threw THEN Len(b.targets) + 1 ELSE @ + 1,
              !.totalSent = @ + (IF r.threw THEN 0 ELSE r.result.sent),
              !.totalFailed = @ + (IF r.threw THEN 1 ELSE r.result.failed),
              !.log = Append(@, [userId |-> TargetAt(b), threw |-> r.threw,
                                  result |-> r.result])]

AccumulateBatch(b, r) ==
    [b EXCEPT !.i = @ + 1,
              !.totalSent = @ + (IF r.threw THEN 0 ELSE r.result.sent),
              !.totalFailed = @ + (IF r.threw THEN 1 ELSE r.result.failed),
              !.log = Append(@, [userId |-> TargetAt(b), threw |-> r.threw,
                                  result |-> r.result])]

\* POST /send: one turn of the loop over targetUsers
AccumulateSendThrowUncounted(b, r) ==
    [b EXCEPT !.i = @ + 1,
              !.totalSent = @ + (IF r.threw THEN 0 ELSE r.result.sent),
              !.totalFailed = @ + (IF r.threw THEN 0 ELSE r.result.failed),
              !.log = Append(@, [userId |-> TargetAt(b), threw |-> r.threw,
                                  result |-> r.result])]

AccumulateSend(b, r) ==
    [b EXCEPT !.i = @ + 1,
              !.totalSent = @ + (IF r.threw THEN 0 ELSE r.result.sent),
              !.totalFailed = @ + (IF r.threw THEN 1 ELSE r.result.failed),
              !.log = Append(@, [userId |-> TargetAt(b), threw |-> r.threw,
                                  result |-> r.result])]

\* a value that `!v` takes for missing
Falsy(v) == v = Undefined \/ v = ""

NoRecipients == [isArray |-> FALSE, items |-> <<>>]

\* recipients && Array.isArray(recipients) ? recipients : [userId]
TargetUsers(userId, recipients) ==
    IF recipients.isArray THEN recipients.items ELSE <<userId>>

\* type || eventKey
NotificationType(type, eventKey) ==
    IF Falsy(type) THEN eventKey ELSE type

\* the check that throws BadRequestError
PassesSendValidation(req) ==
    /\ Len(TargetUsers(req.userId, req.recipients)) # 0
    /\ ~Falsy(NotificationType(req.type, req.eventKey))
    /\ ~Falsy(req.title)
    /\ ~Falsy(req.body)

BatchUserLists ==
    {<<>>} \cup {<<u>> : u \in Users} \cup {<<u, v>> : u, v \in Users}
    \cup {<<"u1", "u2", "u1">>}

\* request bodies of POST /send: the target named by userId, by recipients, by
\* both or by neither; the type tag under either name or missing; title or body
\* missing
SendRequests ==
    {[userId |-> u, recipients |-> r, type |-> k[1], eventKey |-> k[2],
      title |-> tb[1], body |-> tb[2]] :
        u \in {Undefined, "u1"},
        r \in {NoRecipients} \cup
              {[isArray |-> TRUE, items |-> l] : l \in {<<>>, <<"u2">>, <<"u2", "u1">>}},
        k \in {<<Undefined, Undefined>>, <<"task_assigned", Undefined>>,
               <<Undefined, "TASK_ASSIGNED">>},
        tb \in {<<"T", "B">>, <<Undefined, "B">>, <<"T", "">>}}

\* the registrations that set the scene: two devices of u1, one of u2
FaultRegistrations == {<<"u1", "t1">>, <<"u1", "t2">>, <<"u2", "t2">>}

\* the failures one sendPushNotification call meets: none or one; the re-read
\* is reached only after a duplicate key error
FaultChoices(raced) ==
    {{}} \cup {{f} : f \in (IF raced THEN FaultPoints ELSE FaultPoints \ {"prefsRefetch"})}

\* the per-token outcomes the loops are run against
LoopOutcomes == {Success, InvalidToken, Transient}

Quiet == Idle /\ batch.op = "none"

NewLoop(op, request, targets) ==
    [op |-> op, request |-> request, targets |-> targets, i |-> 1,
     totalSent |-> 0, totalFailed |-> 0, log |-> <<>>, step |-> None]

SendToMultipleUsersStart(userIds) ==
    /\ Quiet
    /\ batch' = NewLoop("sendToMultipleUsers", None, userIds)
    /\ UNCHANGED <<prefsColl, fcmTokens, now, last, prevUpdate, proc, prevRegister, inApp>>

SendNotificationStart(req) ==
    /\ Quiet
    /\ IF PassesSendValidation(req)
       THEN /\ batch' = NewLoop("sendNotification", req,
                                TargetUsers(req.userId, req.recipients))
            /\ UNCHANGED last
       ELSE /\ last' = [op |-> "sendNotification", request |-> req, status |-> 400,
                        success |-> FALSE,
                        targets |-> TargetUsers(req.userId, req.recipients),
                        log |-> <<>>]
            /\ UNCHANGED batch
    /\ UNCHANGED <<prefsColl, fcmTokens, now, prevUpdate, proc, prevRegister, inApp>>

\* one turn of either loop: sendPushNotification for the i-th target
LoopStep ==
    /\ batch.op # "none"
    /\ batch.i <= Len(batch.targets)
    /\ LET userId == TargetAt(batch)
           hadRecord == FindOnePrefs(prefsColl, userId) # 0
       IN \E tokens \in TokenOrders(fcmTokens, userId),
             raced \in (IF hadRecord \/ IsBlank(userId) THEN {FALSE} ELSE BOOLEAN) :
            \E failing \in FaultChoices(raced),
               outcomeOf \in [{tokens[i].token : i \in 1..Len(tokens)} -> LoopOutcomes] :
              LET r == SendPushUnderFaults(prefsColl, fcmTokens, userId, Undefined,
                                           tokens, outcomeOf, now, failing, raced)
                  b == IF batch.op = "sendToMultipleUsers"
                       THEN AccumulateBatch(batch, r) ELSE AccumulateSend(batch, r)
              IN /\ prefsColl' = r.prefsColl
                 /\ fcmTokens' = r.tokensColl
                 /\ batch' = [b EXCEPT !.step =
                        [op |-> "sendPushNotification", userId |-> userId,
                         failing |-> failing, raced |-> raced,
                         hadRecord |-> hadRecord,
                         threw |-> r.threw, shouldSend |-> r.shouldSend,
                         gatePath |-> r.gatePath, tokensRead |-> r.tokensRead,
                         tokens |-> r.tokens, transportCalls |-> r.transportCalls,
                         result |-> r.result]]
    /\ UNCHANGED <<now, last, prevUpdate, proc, prevRegister, inApp>>

\* the loop is over: the totals are returned
LoopEnd ==
    /\ batch.op # "none"
    /\ batch.i > Len(batch.targets)
    /\ last' = IF batch.op = "sendToMultipleUsers"
               THEN [op |-> batch.op, userIds |-> batch.targets, log |-> batch.log,
                     total |-> Len(batch.targets), sent |-> batch.totalSent,
                     failed |-> batch.totalFailed]
               ELSE [op |-> batch.op, request |-> batch.request, status |-> 200,
                     success |-> batch.totalSent > 0, targets |-> batch.targets,
                     log |-> batch.log, sent |-> batch.totalSent,
                     failed |-> batch.totalFailed]
    /\ batch' = None
    /\ UNCHANGED <<prefsColl, fcmTokens, now, prevUpdate, proc, prevRegister, inApp>>

NextFaults ==
    \/ Return
    \/ Quiet /\ \E a \in FaultRegistrations :
                   RegisterTokenCall(a[1], a[2], "android", NoDevice)
    \/ Quiet /\ UpdatePreferencesCall("u1", "taskUpdates" :> ("push" :> FALSE))
    \/ \E l \in BatchUserLists : SendToMultipleUsersStart(l)
    \/ \E req \in SendRequests : SendNotificationStart(req)
    \/ LoopStep
    \/ LoopEnd

SpecFaults == Init /\ [][NextFaults]_vars

\* the batch loop on its own; an awaited call that has settled is resumed by
\* the event loop, so a turn that can be taken is taken
BatchRegistrations == {<<"u1", "t1">>}

NextBatch ==
    \/ Return
    \/ Quiet /\ \E a \in BatchRegistrations :
                   RegisterTokenCall(a[1], a[2], "android", NoDevice)
    \/ \E l \in BatchUserLists : SendToMultipleUsersStart(l)
    \/ LoopStep
    \/ LoopEnd

SpecBatchFair ==
    Init /\ [][NextBatch]_vars /\ WF_vars(LoopStep) /\ WF_vars(LoopEnd)

(***************************************************************************)
(* Claims about the send loops and the gate under failures                 *)
(***************************************************************************)
RECURSIVE SumSent(_)
SumSent(log) ==
    IF Len(log) = 0 THEN 0
    ELSE (IF log[1].threw THEN 0 ELSE log[1].result.sent) + SumSent(Tail(log))

RECURSIVE SumFailed(_)
SumFailed(log) ==
    IF Len(log) = 0 THEN 0
    ELSE (IF log[1].threw THEN 1 ELSE log[1].result.failed) + SumFailed(Tail(log))

\* C15: sendToMultipleUsers returns total = the length of userIds; every user
\* of the list has been dispatched, a user whose sendPushNotification threw
\* counts 1 in failed and 0 in sent, every other user counts its own sent and
\* failed.
C15_BatchIsolatesThrowingUser ==
    last.op = "sendToMultipleUsers" =>
        /\ last.total = Len(last.userIds)
        /\ Len(last.log) = Len(last.userIds)
        /\ last.sent = SumSent(last.log)
        /\ last.failed = SumFailed(last.log)

C15_Witness ==
    /\ last.op = "sendToMultipleUsers"
    /\ last.userIds = <<"u1", "u2", "u1">>
    /\ ~last.log[1].threw /\ last.log[1].result.sent = 1 /\ last.log[1].result.failed = 1
    /\ last.log[2].threw
    /\ ~last.log[3].threw /\ last.log[3].result.sent = 1
    /\ last.total = 3 /\ last.sent = 2 /\ last.failed = 2

\* the request names no target: no userId and no non-empty recipients list
NamesNoTarget(req) ==
    /\ req.userId \in {Undefined, ""}
    /\ ~req.recipients.isArray \/ Len(req.recipients.items) = 0

\* the request lacks a non-empty type/eventKey, title or body
LacksField(req) ==
    \/ req.type \in {Undefined, ""} /\ req.eventKey \in {Undefined, ""}
    \/ req.title \in {Undefined, ""}
    \/ req.body \in {Undefined, ""}

\* C16: a POST /send request that names no target or lacks a type/eventKey,
\* title or body never enters the dispatch loop and is answered with an error
\* and no dispatch.
C16_InvalidSendIsRejected ==
    /\ batch.op = "sendNotification" =>
          ~(NamesNoTarget(batch.request) \/ LacksField(batch.request))
    /\ (last.op = "sendNotification"
        /\ (NamesNoTarget(last.request) \/ LacksField(last.request)))
       => last.status = 400 /\ Len(last.log) = 0

\* recipients when present and non-empty, otherwise [userId]
ExpectedTargets(req) ==
    IF req.recipients.isArray /\ Len(req.recipients.items) > 0
    THEN req.recipients.items
    ELSE <<req.userId>>

\* C17: the targets of a POST /send request that carries a type/eventKey, title
\* and body are recipients when that list is present and non-empty and
\* [userId] otherwise, and the request is dispatched to exactly those targets.
C17_TargetsAreRecipientsOrUserId ==
    /\ batch.op = "sendNotification" => batch.targets = ExpectedTargets(batch.request)
    /\ (last.op = "sendNotification" /\ ~LacksField(last.request)
        /\ ~NamesNoTarget(last.request))
       => /\ last.status = 200
          /\ last.targets = ExpectedTargets(last.request)
          /\ Len(last.log) = Len(last.targets)

\* C18: a POST /send request that passed validation has dispatched every
\* target; sent is the sum of the targets' sent counts, failed the sum of their
\* failed counts plus one per target whose dispatch threw, and success is true
\* exactly when sent > 0. A request with a non-empty recipients list, a
\* type/eventKey, a title and a body passes validation.
C18_SendAggregatesPerTarget ==
    /\ (last.op = "sendNotification" /\ last.status = 200)
       => /\ Len(last.log) = Len(last.targets)
          /\ last.sent = SumSent(last.log)
          /\ last.failed = SumFailed(last.log)
          /\ last.success = (last.sent > 0)
    /\ (last.op = "sendNotification" /\ ~LacksField(last.request)
        /\ last.request.recipients.isArray
        /\ Len(last.request.recipients.items) > 0)
       => last.status = 200

C18_Witness ==
    /\ last.op = "sendNotification" /\ last.status = 200
    /\ last.targets = <<"u2", "u1">>
    /\ last.log[1].threw
    /\ ~last.log[2].threw /\ last.log[2].result.sent = 1 /\ last.log[2].result.failed = 1
    /\ last.sent = 1 /\ last.failed = 2 /\ last.success

\* a preference-store operation of the gate failed in this turn of the loop
GateOperationFailed(step) ==
    \/ "prefsFindOne" \in step.failing
    \/ ~step.hadRecord /\ "createDefault" \in step.failing
    \/ ~step.hadRecord /\ step.raced /\ "prefsRefetch" \in step.failing

\* C20: when the read, the default creation or the re-read of the preference
\* store fails for a non-blank userId, the gate answers true; unless a later
\* operation fails as well, sendPushNotification throws nothing, reads the
\* tokens and calls the transport when there are any.
C20_GateFailsOpen ==
    (/\ batch.op # "none"
     /\ batch.step.op # "none"
     /\ batch.step.userId \notin {Undefined, "", " "}
     /\ GateOperationFailed(batch.step))
    => /\ batch.step.shouldSend
       /\ (batch.step.failing \cap {"tokensFind", "transport", "updateMany",
                                    "deleteMany"} = {})
          => /\ ~batch.step.threw
             /\ batch.step.tokensRead
             /\ batch.step.transportCalls = (IF Len(batch.step.tokens) > 0 THEN 1 ELSE 0)

\* u1 has switched taskUpdates.push off; the read of the record fails and the
\* notification is sent
C20_Witness ==
    /\ batch.op # "none" /\ batch.step.op # "none"
    /\ batch.step.userId = "u1" /\ batch.step.hadRecord
    /\ batch.step.failing = {"prefsFindOne"}
    /\ \E i \in 1..Len(prefsColl) :
          prefsColl[i].userId = "u1" /\ prefsColl[i].prefs["taskUpdates"]["push"] = FALSE
    /\ batch.step.shouldSend /\ batch.step.transportCalls = 1
    /\ ~batch.step.threw /\ batch.step.result.sent = 1

(***************************************************************************)
(* The gate's decision on any preference document                          *)
(***************************************************************************)
\* the documents a read can hand to the gate: the defaults with the object of
\* one category replaced by any object over the channel flags (all three flags
\* with any values, or only some of them), or with one category left out
GateDocuments ==
    {[found |-> TRUE, userId |-> "u1",
      prefs |-> [c \in Categories |-> IF c = k THEN obj ELSE DefaultPreferences[c]]] :
        k \in {"transactional", "taskUpdates", "updatesNewsletters"},
        obj \in PartialFlags(Channels)}
    \cup {[found |-> TRUE, userId |-> "u1",
           prefs |-> [c \in Categories \ {k} |-> DefaultPreferences[c]]] :
            k \in Categories}

GateDecisionCall(doc, category, channel) ==
    /\ last' = [op |-> "gateDecision", doc |-> doc, category |-> category,
                channel |-> channel, result |-> GateDecision(doc, category, channel)]
    /\ UNCHANGED <<prefsColl, fcmTokens, now, prevUpdate, proc, prevRegister, batch, inApp>>

NextGateInputs ==
    \E doc \in GateDocuments, c \in GateCategories, ch \in Channels :
        GateDecisionCall(doc, c, ch)

SpecGateInputs == Init /\ [][NextGateInputs]_vars

\* C24: for a three-channel category whose object in the stored record has the
\* email, push and sms flags, the gate returns the stored flag of the requested
\* channel; when the object lacks one of the three flags, it returns false.
C24_ThreeChannelReturnsStoredFlag ==
    (/\ last.op = "gateDecision"
     /\ last.category \in {"transactional", "taskUpdates", "taskReminders",
                           "helpfulInformation", "updatesNewsletters"}
     /\ last.category \in DOMAIN last.doc.prefs)
    => LET obj == last.doc.prefs[last.category]
       IN IF {"email", "push", "sms"} \subseteq DOMAIN obj
          THEN last.result = obj[last.channel]
          ELSE last.result = FALSE

\* the stored sms flag is off while push is on, and sms is asked for
C24_Witness ==
    /\ last.op = "gateDecision" /\ last.category = "taskUpdates"
    /\ "taskUpdates" \in DOMAIN last.doc.prefs
    /\ DOMAIN last.doc.prefs["taskUpdates"] = {"email", "push", "sms"}
    /\ last.channel = "sms" /\ ~last.doc.prefs["taskUpdates"]["sms"]
    /\ last.doc.prefs["taskUpdates"]["push"]
    /\ last.result = FALSE

\* C25: when the stored record has no settings for the requested category, the
\* gate returns true for every channel.
C25_MissingCategoryAllows ==
    (/\ last.op = "gateDecision"
     /\ last.category \notin DOMAIN last.doc.prefs)
    => last.result = TRUE

C25_Witness ==
    /\ last.op = "gateDecision"
    /\ last.category = "transactional" /\ last.channel = "email"
    /\ "transactional" \notin DOMAIN last.doc.prefs
    /\ last.result = TRUE

(***************************************************************************)
(* sendPushNotification under failures, one call at a time                 *)
(***************************************************************************)
\* notification.data || {}
NoData == [k \in {} |-> ""]

\* data: { type: notification.type, ...(notification.data || {}) }: a key of the
\* caller's data replaces the key written before the spread
DataMap(type, data) == data @@ ("type" :> type)

\* the multicast message: the token strings of the resolved records and the data
OutboundMessage(tokens, type, data) ==
    [tokens |-> [i \in 1..Len(tokens) |-> tokens[i].token],
     data |-> DataMap(type, data)]

NotificationData ==
    {NoData, [taskId |-> "42"], [taskId |-> "42", type |-> "custom"]}

SendUnderFaultsCall(userId, type, data) ==
    LET hadRecord == FindOnePrefs(prefsColl, userId) # 0
    IN \E tokens \in TokenOrders(fcmTokens, userId),
          raced \in (IF hadRecord \/ IsBlank(userId) THEN {FALSE} ELSE BOOLEAN) :
         \E failing \in FaultChoices(raced),
            outcomeOf \in [{tokens[i].token : i \in 1..Len(tokens)} -> LoopOutcomes] :
           LET r == SendPushUnderFaults(prefsColl, fcmTokens, userId, Undefined,
                                        tokens, outcomeOf, now, failing, raced)
           IN /\ prefsColl' = r.prefsColl
              /\ fcmTokens' = r.tokensColl
              /\ last' = [op |-> "sendPushNotification", userId |-> userId,
                          type |-> type, data |-> data, failing |-> failing,
                          threw |-> r.threw, shouldSend |-> r.shouldSend,
                          tokensRead |-> r.tokensRead, tokens |-> r.tokens,
                          outcomes |-> r.outcomes,
                          transportCalls |-> r.transportCalls,
                          updateManyCalls |-> r.updateManyCalls,
                          deleteManyCalls |-> r.deleteManyCalls,
                          message |-> IF r.transportCalls = 0 THEN None
                                      ELSE OutboundMessage(r.tokens, type, data),
                          result |-> r.result]
              /\ UNCHANGED <<now, prevUpdate, proc, prevRegister, batch, inApp>>

NextSendFaults ==
    \/ Return
    \/ Idle /\ Tick
    \/ Idle /\ \E a \in FaultRegistrations :
                   RegisterTokenCall(a[1], a[2], "android", NoDevice)
    \/ Idle /\ UpdatePreferencesCall("u1", "taskUpdates" :> ("push" :> FALSE))
    \/ Idle /\ \E u \in Users, data \in NotificationData :
                   SendUnderFaultsCall(u, "task_assigned", data)

SpecSendFaults == Init /\ [][NextSendFaults]_vars

\* a step that is one sendPushNotification call with its failures
IsFaultSendStep == Idle /\ last'.op = "sendPushNotification"

\* C21: when the bulk last-active update or the bulk delete made after the
\* transport call throws, sendPushNotification returns the counts of the
\* transport response and raises nothing.
C21_CleanupFailureKeepsResult ==
    (/\ last.op = "sendPushNotification"
     /\ \/ "updateMany" \in last.failing /\ last.updateManyCalls = 1
        \/ "deleteMany" \in last.failing /\ last.deleteManyCalls = 1)
    => /\ ~last.threw
       /\ last.result.sent = Cardinality(Positions(last.outcomes, {Success}))
       /\ last.result.failed = Cardinality(Positions(last.outcomes, Outcomes \ {Success}))

\* C22: when the read of the user's tokens throws, or the transport call
\* throws, sendPushNotification throws, makes no last-active update and no
\* delete, and the token collection is as it was.
C22_ReadOrTransportFailurePropagates ==
    [][(/\ IsFaultSendStep
        /\ last'.shouldSend
        /\ \/ "tokensFind" \in last'.failing
           \/ "transport" \in last'.failing /\ last'.transportCalls = 1)
       => /\ last'.threw
          /\ last'.updateManyCalls = 0
          /\ last'.deleteManyCalls = 0
          /\ fcmTokens' = fcmTokens]_vars

\* the transport call fails for a user with two registered tokens, at a time
\* after their registration
C22_Witness ==
    /\ last.op = "sendPushNotification" /\ last.userId = "u1"
    /\ last.failing = {"transport"} /\ last.transportCalls = 1
    /\ Len(last.tokens) = 2
    /\ last.threw
    /\ now = 1 /\ \A d \in fcmTokens : d.lastActive = 0

\* C23: one sendPushNotification call makes at most one transport call, at
\* most one bulk last-active update and at most one bulk delete on every path,
\* and the one message names each resolved token once, also when tokens fail.
C23_AtMostOneOfEachSideEffect ==
    last.op = "sendPushNotification" =>
        /\ last.transportCalls \in {0, 1}
        /\ last.updateManyCalls \in {0, 1}
        /\ last.deleteManyCalls \in {0, 1}
        /\ last.transportCalls = 1 =>
              /\ Len(last.message.tokens) = Len(last.tokens)
              /\ \A i, j \in 1..Len(last.message.tokens) :
                    i # j => last.message.tokens[i] # last.message.tokens[j]

\* one token succeeded, the other failed with a transient error and is still
\* registered: one transport call, one update, no delete
C23_Witness ==
    /\ last.op = "sendPushNotification" /\ ~last.threw
    /\ Len(last.tokens) = 2
    /\ Positions(last.outcomes, {Transient}) # {}
    /\ Positions(last.outcomes, {Success}) # {}
    /\ last.transportCalls = 1 /\ last.updateManyCalls = 1 /\ last.deleteManyCalls = 0
    /\ last.result.sent = 1 /\ last.result.failed = 1
    /\ Cardinality(fcmTokens) >= 2

\* C26: the message submitted to the transport is addressed to exactly the
\* token strings of the resolved records, and its data map holds the
\* notification's type under the key type and every other field of the
\* caller's data, also when the caller's data has a type field of its own.
C26_MessageCarriesTypeAndData ==
    (last.op = "sendPushNotification" /\ last.transportCalls = 1) =>
        /\ {last.message.tokens[i] : i \in 1..Len(last.message.tokens)}
              = {last.tokens[i].token : i \in 1..Len(last.tokens)}
        /\ "type" \in DOMAIN last.message.data
        /\ last.message.data["type"] = last.type
        /\ \A k \in DOMAIN last.data \ {"type"} :
              k \in DOMAIN last.message.data /\ last.message.data[k] = last.data[k]

(***************************************************************************)
(* updatePreferences calls that interleave at their store operations       *)
(***************************************************************************)
RaceUpdateBodies ==
    {"taskUpdates" :> ("email" :> FALSE),
     "taskUpdates" :> ("push" :> FALSE),
     "keywordTaskAlerts" :> ("push" :> FALSE)}

\* the document in memory after the `if (preferences.<category>)` blocks: the
\* categories of the body are assigned, the others are as read
AssignCategories(prefs, supplied) == ApplyUpdate(prefs, supplied)

\* save(): the categories that were assigned are written, each as a whole
\* object, to the record that was read; the other categories of the stored
\* record are not touched
SavePreferences(coll, userId, inMemory, assigned) ==
    [i \in 1..Len(coll) |->
        IF coll[i].userId = userId
        THEN [coll[i] EXCEPT !.prefs =
                 [c \in Categories |-> IF c \in assigned THEN inMemory[c] ELSE @[c]]]
        ELSE coll[i]]

UpdLoaded(p, a, prefs, path) ==
    proc' = [proc EXCEPT ![p] =
        [pc |-> "updSave", userId |-> a.userId, supplied |-> a.supplied,
         path |-> path, doc |-> AssignCategories(prefs, a.supplied)]]

\* the call up to the answer of findOne({ userId })
UpdFindOne(p, userId, supplied) ==
    /\ proc[p].pc = "idle"
    /\ LET idx == FindOnePrefs(prefsColl, userId)
           a == [userId |-> userId, supplied |-> supplied]
       IN IF idx # 0
          THEN UpdLoaded(p, a, prefsColl[idx].prefs, "found")
          ELSE proc' = [proc EXCEPT ![p] =
                  [pc |-> "updCreateDefault", userId |-> userId, supplied |-> supplied]]
    /\ UNCHANGED <<prefsColl, fcmTokens, now, last, prevUpdate, prevRegister, batch, inApp>>

UpdCreateDefault(p) ==
    /\ proc[p].pc = "updCreateDefault"
    /\ LET made == CreateDefault(prefsColl, proc[p].userId)
       IN /\ prefsColl' = made.coll
          /\ IF made.code = 0
             THEN UpdLoaded(p, proc[p], DefaultPreferences, "created")
             ELSE proc' = [proc EXCEPT ![p].pc = "updRefetch"]
    /\ UNCHANGED <<fcmTokens, now, last, prevUpdate, prevRegister, batch, inApp>>

UpdRefetch(p) ==
    /\ proc[p].pc = "updRefetch"
    /\ UpdLoaded(p, proc[p], prefsColl[FindOnePrefs(prefsColl, proc[p].userId)].prefs,
                 "refetched")
    /\ UNCHANGED <<prefsColl, fcmTokens, now, last, prevUpdate, prevRegister, batch, inApp>>

UpdSave(p) ==
    /\ proc[p].pc = "updSave"
    /\ prefsColl' = SavePreferences(prefsColl, proc[p].userId, proc[p].doc,
                                    DOMAIN proc[p].supplied)
    /\ proc' = [proc EXCEPT ![p].pc = "updDone"]
    /\ UNCHANGED <<fcmTokens, now, last, prevUpdate, prevRegister, batch, inApp>>

UpdReturn(p) ==
    /\ proc[p].pc = "updDone"
    /\ proc' = [proc EXCEPT ![p] = [pc |-> "idle"]]
    /\ UNCHANGED <<prefsColl, fcmTokens, now, last, prevUpdate, prevRegister, batch, inApp>>

NextUpdateRace ==
    \/ \E p \in Procs, u \in Users, b \in RaceUpdateBodies : UpdFindOne(p, u, b)
    \/ \E p \in Procs : UpdCreateDefault(p)
    \/ \E p \in Procs : UpdRefetch(p)
    \/ \E p \in Procs : UpdSave(p)
    \/ \E p \in Procs : UpdReturn(p)

SpecUpdateRace == Init /\ [][NextUpdateRace]_vars

\* C28: when two updatePreferences calls for the same user, one supplying
\* taskUpdates.email = false and the other taskUpdates.push = false, have both
\* saved, the stored record has both flags false.
C28_NoLostPreferenceUpdate ==
    (/\ \A p \in Procs : proc[p].pc = "updDone"
     /\ proc["p1"].userId = proc["p2"].userId
     /\ proc["p1"].supplied = ("taskUpdates" :> ("email" :> FALSE))
     /\ proc["p2"].supplied = ("taskUpdates" :> ("push" :> FALSE)))
    => \A i \in RecordsOf(prefsColl, proc["p1"].userId) :
          /\ prefsColl[i].prefs["taskUpdates"]["email"] = FALSE
          /\ prefsColl[i].prefs["taskUpdates"]["push"] = FALSE

(***************************************************************************)
(* sendPushNotification calls that interleave with registerToken           *)
(***************************************************************************)
\* the registrations that run while sends are in flight: t1 moves between the
\* two users, t2 belongs to u1
SendRaceRegistrations == {<<"u1", "t1">>, <<"u2", "t1">>, <<"u1", "t2">>}

SndDone(p, result) ==
    proc' = [proc EXCEPT ![p].pc = "sndDone", ![p].result = result]

\* the call up to the answer of the preference gate
SndGate(p, userId) ==
    /\ proc[p].pc = "idle"
    /\ LET gate == ShouldSendNotification(prefsColl, userId, ResolveCategory(Undefined),
                                          "push")
       IN /\ prefsColl' = gate.coll
          /\ proc' = [proc EXCEPT ![p] =
                [pc |-> IF gate.result THEN "sndTokens" ELSE "sndDone",
                 userId |-> userId, tokens |-> <<>>, successful |-> {},
                 invalid |-> {}, result |-> NothingSent]]
    /\ UNCHANGED <<fcmTokens, now, last, prevUpdate, prevRegister, batch, inApp>>

\* getUserFCMTokens
SndTokens(p) ==
    /\ proc[p].pc = "sndTokens"
    /\ \E tokens \in TokenOrders(fcmTokens, proc[p].userId) :
          proc' = [proc EXCEPT ![p].tokens = tokens,
                               ![p].pc = IF Len(tokens) = 0 THEN "sndDone"
                                         ELSE "sndTransport"]
    /\ UNCHANGED <<prefsColl, fcmTokens, now, last, prevUpdate, prevRegister, batch, inApp>>

\* sendEachForMulticast and the two lists computed from its responses
SndTransport(p) ==
    /\ proc[p].pc = "sndTransport"
    /\ LET tokens == proc[p].tokens
       IN \E outcomeOf \in [{tokens[i].token : i \in 1..Len(tokens)} -> LoopOutcomes] :
            LET response == SendEachForMulticast(
                               [i \in 1..Len(tokens) |-> tokens[i].token], outcomeOf)
                successful == SuccessfulTokens(tokens, response.responses)
                invalid == InvalidTokens(tokens, response.responses)
            IN proc' = [proc EXCEPT ![p].successful = successful,
                                    ![p].invalid = invalid,
                                    ![p].result = SendResult(response),
                                    ![p].pc = IF successful # {} THEN "sndUpdateMany"
                                              ELSE IF invalid # {} THEN "sndDeleteMany"
                                              ELSE "sndDone"]
    /\ UNCHANGED <<prefsColl, fcmTokens, now, last, prevUpdate, prevRegister, batch, inApp>>

SndUpdateMany(p) ==
    /\ proc[p].pc = "sndUpdateMany"
    /\ fcmTokens' = UpdateManyLastActive(fcmTokens, proc[p].successful, now)
    /\ proc' = [proc EXCEPT ![p].pc = IF proc[p].invalid # {} THEN "sndDeleteMany"
                                      ELSE "sndDone"]
    /\ UNCHANGED <<prefsColl, now, last, prevUpdate, prevRegister, batch, inApp>>

SndDeleteMany(p) ==
    /\ proc[p].pc = "sndDeleteMany"
    /\ fcmTokens' = DeleteManyTokens(fcmTokens, proc[p].invalid)
    /\ proc' = [proc EXCEPT ![p].pc = "sndDone"]
    /\ UNCHANGED <<prefsColl, now, last, prevUpdate, prevRegister, batch, inApp>>

SndReturn(p) ==
    /\ proc[p].pc = "sndDone"
    /\ proc' = [proc EXCEPT ![p] = [pc |-> "idle"]]
    /\ UNCHANGED <<prefsColl, fcmTokens, now, last, prevUpdate, prevRegister, batch, inApp>>

\* a registerToken call that runs between two steps of the sends
RaceRegister(userId, token) ==
    /\ fcmTokens' = RegisterToken(fcmTokens, userId, token, "android", NoDevice, now)
    /\ UNCHANGED <<prefsColl, now, last, prevUpdate, proc, prevRegister, batch, inApp>>

NextSendRace ==
    \/ Tick
    \/ \E a \in SendRaceRegistrations : RaceRegister(a[1], a[2])
    \/ \E p \in Procs, u \in Users : SndGate(p, u)
    \/ \E p \in Procs : SndTokens(p)
    \/ \E p \in Procs : SndTransport(p)
    \/ \E p \in Procs : SndUpdateMany(p)
    \/ \E p \in Procs : SndDeleteMany(p)
    \/ \E p \in Procs : SndReturn(p)

SpecSendRace == Init /\ [][NextSendRace]_vars

\* C27: the bulk last-active update and the bulk delete of a
\* sendPushNotification call for user u change or remove only records that
\* user u owns when the write is made.
C27_SendWritesOnlyOwnRecords ==
    [][\A p \in Procs :
         (proc[p].pc \in {"sndUpdateMany", "sndDeleteMany"} /\ proc'[p].pc # proc[p].pc)
         => \A d \in fcmTokens \ fcmTokens' : d.userId = proc[p].userId]_vars

(***************************************************************************)
(* Claims about the order and the termination of the batch loop            *)
(***************************************************************************)
\* the users of the log entries, in the order the calls were made
Dispatched(log) == [k \in 1..Len(log) |-> log[k].userId]

\* C29: sendToMultipleUsers terminates for every list of user ids; it calls
\* sendPushNotification once per list position in list order (the calls made
\* so far are the users of the positions before the current one, each call
\* over - returned or thrown - before the next), so a user id that occurs k
\* times is dispatched k times.
C29_BatchDispatchesInOrderAndTerminates ==
    /\ [](batch.op = "sendToMultipleUsers" =>
            /\ batch.i \in 1..(Len(batch.targets) + 1)
            /\ Dispatched(batch.log) = SubSeq(batch.targets, 1, batch.i - 1)
            /\ \A k \in 1..Len(batch.log) :
                   batch.log[k].threw \/ batch.log[k].result # None)
    /\ [](last.op = "sendToMultipleUsers" => Dispatched(last.log) = last.userIds)
    /\ (batch.op = "sendToMultipleUsers" ~> last.op = "sendToMultipleUsers")

C29_Witness ==
    /\ last.op = "sendToMultipleUsers"
    /\ last.userIds = <<"u1", "u2", "u1">>
    /\ Dispatched(last.log) = <<"u1", "u2", "u1">>
    /\ Cardinality({k \in 1..Len(last.log) : last.log[k].userId = "u1"}) = 2

(***************************************************************************)
(* In-app notifications                                                    *)
(***************************************************************************)
InAppIds == {"n1", "n2", "n3"}

\* readAt of a notification that was never read
NoDate == -1

\* InAppNotification.create({..., read: false}); timestamps: true
CreateInApp(coll, id, userId, time) ==
    coll \cup {[_id |-> id, userId |-> userId, read |-> FALSE, readAt |-> NoDate,
                updatedAt |-> time]}

\* the update document { read: true, readAt: new Date() } applied to one record
MarkedRead(d, time) == [d EXCEPT !.read = TRUE, !.readAt = time, !.updatedAt = time]

\* updateOne({ _id, userId }, { read: true, readAt }); modifiedCount counts the
\* records the update changed
UpdateOneReadByIdOnly(coll, id, userId, time) ==
    LET matched == {d \in coll : d._id = id}
        changed == {d \in matched : MarkedRead(d, time) # d}
    IN [coll |-> (coll \ matched) \cup {MarkedRead(d, time) : d \in matched},
        modifiedCount |-> Cardinality(changed)]

UpdateOneRead(coll, id, userId, time) ==
    LET matched == {d \in coll : d._id = id /\ d.userId = userId}
        changed == {d \in matched : MarkedRead(d, time) # d}
    IN [coll |-> (coll \ matched) \cup {MarkedRead(d, time) : d \in matched},
        modifiedCount |-> Cardinality(changed)]

\* updateMany({ userId, read: false }, { read: true, readAt })
UpdateManyRead(coll, userId, time) ==
    LET matched == {d \in coll : d.userId = userId /\ ~d.read}
    IN [coll |-> (coll \ matched) \cup {MarkedRead(d, time) : d \in matched},
        modifiedCount |-> Cardinality(matched)]

\* deleteOne({ _id, userId })
DeleteOneInApp(coll, id, userId) ==
    LET matched == {d \in coll : d._id = id /\ d.userId = userId}
    IN [coll |-> coll \ matched, deletedCount |-> Cardinality(matched)]

\* countDocuments({ userId, read: false })
GetUnreadNotificationCount(coll, userId) ==
    Cardinality({d \in coll : d.userId = userId /\ ~d.read})

CreateInAppNotificationCall(userId) ==
    /\ Idle
    /\ \E id \in InAppIds \ {d._id : d \in inApp} :
          /\ inApp' = CreateInApp(inApp, id, userId, now)
          /\ last' = [op |-> "createInAppNotification", userId |-> userId, id |-> id,
                      before |-> inApp]
    /\ UNCHANGED <<prefsColl, fcmTokens, now, prevUpdate, proc, prevRegister, batch>>

MarkInAppNotificationAsReadCall(id, userId) ==
    /\ Idle
    /\ LET r == UpdateOneRead(inApp, id, userId, now)
       IN /\ inApp' = r.coll
          /\ last' = [op |-> "markInAppNotificationAsRead", userId |-> userId,
                      id |-> id, before |-> inApp, result |-> r.modifiedCount > 0]
    /\ UNCHANGED <<prefsColl, fcmTokens, now, prevUpdate, proc, prevRegister, batch>>

MarkAllInAppNotificationsAsReadCall(userId) ==
    /\ Idle
    /\ LET r == UpdateManyRead(inApp, userId, now)
       IN /\ inApp' = r.coll
          /\ last' = [op |-> "markAllInAppNotificationsAsRead", userId |-> userId,
                      before |-> inApp, modifiedCount |-> r.modifiedCount]
    /\ UNCHANGED <<prefsColl, fcmTokens, now, prevUpdate, proc, prevRegister, batch>>

DeleteInAppNotificationCall(id, userId) ==
    /\ Idle
    /\ LET r == DeleteOneInApp(inApp, id, userId)
       IN /\ inApp' = r.coll
          /\ last' = [op |-> "deleteInAppNotification", userId |-> userId, id |-> id,
                      before |-> inApp, result |-> r.deletedCount > 0]
    /\ UNCHANGED <<prefsColl, fcmTokens, now, prevUpdate, proc, prevRegister, batch>>

GetUnreadNotificationCountCall(userId) ==
    /\ Idle
    /\ last' = [op |-> "getUnreadNotificationCount", userId |-> userId,
                before |-> inApp, count |-> GetUnreadNotificationCount(inApp, userId)]
    /\ UNCHANGED <<prefsColl, fcmTokens, now, prevUpdate, proc, prevRegister, batch, inApp>>

NextInApp ==
    \/ Return
    \/ Idle /\ Tick
    \/ \E u \in Users : CreateInAppNotificationCall(u)
    \/ \E id \in InAppIds, u \in Users : MarkInAppNotificationAsReadCall(id, u)
    \/ \E u \in Users : MarkAllInAppNotificationsAsReadCall(u)
    \/ \E id \in InAppIds, u \in Users : DeleteInAppNotificationCall(id, u)
    \/ \E u \in Users : GetUnreadNotificationCountCall(u)

SpecInApp == Init /\ [][NextInApp]_vars

(***************************************************************************)
(* Claims about the in-app notifications                                   *)
(***************************************************************************)
\* the caller owns a notification with this id
OwnsNotification(coll, id, userId) ==
    \E d \in coll : d._id = id /\ d.userId = userId

====
